---- MODULE Spec2Model ----
(***************************************************************************)
(* Market Basket Analysis dashboard (app/main.py): load_data, filter_data  *)
(* and the six dashboard sections, run in the order main() runs them.      *)
(*                                                                         *)
(* A DataFrame is a sequence of rows (records).  A float cell that may be  *)
(* NaN is a sequence of length <= 1: <<>> is NaN, <<v>> is the value v.    *)
(* A missing object cell (BillNo, Itemname, CustomerID, Country) is None.  *)
(* Prices are whole numbers of the currency's minor unit, so the sums are  *)
(* exact; binary floating point rounding is not modelled.  Every row has   *)
(* its Date.  A widget returns what the user asks for when the widget      *)
(* offers it, and otherwise the nearest value it offers.                   *)
(***************************************************************************)
EXTENDS Integers, Sequences, FiniteSets, TLC

VARIABLES
    raw,        \* the rows of table 'transactions' (what pd.read_sql returns)
    pc,         \* position of main()
    heap,       \* number of objects allocated so far (object identities)
    df,         \* the DataFrame load_data returned: [obj, InvoiceDate, rows]
    cfg,        \* what the user set the three sidebar filter widgets to
    flt,        \* the locals of filter_data and what it returned
    page,       \* what main() itself rendered: st.error / st.info
    metrics,    \* the four st.metric cells of kpi_section
    out         \* what the section (tab) main() ran last rendered

vars == <<raw, pc, heap, df, cfg, flt, page, metrics, out>>

-----------------------------------------------------------------------------
(* Bounds of the model *)

MaxRows == 2      \* rows in table 'transactions'

-----------------------------------------------------------------------------
(* Cells *)

None == "None"
NaN == <<>>
Num(v) == <<v>>
isna(x) == x = NaN

Min2(a, b) == IF a <= b THEN a ELSE b
Max2(a, b) == IF a >= b THEN a ELSE b

\* What the database hands back for a quantity or a price: a number, a text
\* that is no number, or NULL.
RawNum(v) == [kind |-> "num", val |-> v]
RawText == [kind |-> "text", val |-> 0]
RawNull == [kind |-> "null", val |-> 0]

\* pd.to_numeric(x, errors="coerce")
to_numeric(x) == IF x.kind = "num" THEN Num(x.val) ELSE NaN

\* .fillna(0)
fillna0(x) == IF isna(x) THEN Num(0) ELSE x

\* .astype(int), of a cell that is no longer NaN
astype_int(x) == x[1]

\* int * float
Times(q, p) == IF isna(p) THEN NaN ELSE Num(q * p[1])

-----------------------------------------------------------------------------
(* Dates *)

Timestamp(y, m, d, h) == [year |-> y, month |-> m, day |-> d, hour |-> h]

\* .dt.date
dt_date(t) == [year |-> t.year, month |-> t.month, day |-> t.day]

\* pd.to_datetime of a datetime.date: midnight of that day
to_datetime(d) == Timestamp(d.year, d.month, d.day, 0)

\* .dt.to_period("M").dt.to_timestamp(): the first instant of the month
to_month(t) == Timestamp(t.year, t.month, 1, 0)

\* Days since 1970-01-01 in the proleptic Gregorian calendar
DaysFromCivil(y, m, d) ==
    LET yy == IF m <= 2 THEN y - 1 ELSE y
        era == yy \div 400
        yoe == yy - era * 400
        mp == (m + 9) % 12
        doy == (153 * mp + 2) \div 5 + d - 1
        doe == yoe * 365 + yoe \div 4 - yoe \div 100 + doy
    IN era * 146097 + doe - 719468

weekday_order ==
    <<"Monday", "Tuesday", "Wednesday", "Thursday", "Friday", "Saturday", "Sunday">>

\* .dt.day_name(): 1970-01-01 was a Thursday
day_name(t) == weekday_order[((DaysFromCivil(t.year, t.month, t.day) + 3) % 7) + 1]

DateOrd(d) == DaysFromCivil(d.year, d.month, d.day)
DateLE(a, b) == DateOrd(a) <= DateOrd(b)

-----------------------------------------------------------------------------
(* load_data *)

RawRow(b, i, q, t, p, c, k) ==
    [BillNo |-> b, Itemname |-> i, Quantity |-> q, Date |-> t, Price |-> p,
     CustomerID |-> c, Country |-> k]

Quantity_col(r) == astype_int(fillna0(to_numeric(r.Quantity)))

\* A slip: the price filled like the quantity
Price_col_filled(r) == fillna0(to_numeric(r.Price))

Price_col(r) == to_numeric(r.Price)

load_row(r) ==
    LET q == Quantity_col(r)
        p == Price_col(r)
    IN [BillNo |-> r.BillNo, Itemname |-> r.Itemname, Quantity |-> q,
        Date |-> r.Date, Price |-> p, CustomerID |-> r.CustomerID,
        Country |-> r.Country,
        Revenue |-> Times(q, p),
        InvoiceDate |-> dt_date(r.Date),
        InvoiceMonth |-> to_month(r.Date),
        Hour |-> r.Date.hour,
        Weekday |-> day_name(r.Date)]

load_data(rows) == [n \in 1..Len(rows) |-> load_row(rows[n])]

-----------------------------------------------------------------------------
(* DataFrames and widgets *)

\* A DataFrame object: its identity, the identity of the Series held as its
\* InvoiceDate column, and its rows.
Frame(o, c, rows) == [obj |-> o, InvoiceDate |-> c, rows |-> rows]

\* df[mask]: a new DataFrame object with new columns, numbered from h + 1
Take(h, rows) == Frame(h + 1, h + 2, rows)

empty(rows) == rows = <<>>

Col(rows, name) == {rows[n][name] : n \in DOMAIN rows}

\* Series.min() / Series.max() of Quantity: NaN on an empty Series
quantity_min(rows) ==
    IF empty(rows) THEN NaN
    ELSE Num(CHOOSE m \in Col(rows, "Quantity") : \A x \in Col(rows, "Quantity") : m <= x)

quantity_max(rows) ==
    IF empty(rows) THEN NaN
    ELSE Num(CHOOSE m \in Col(rows, "Quantity") : \A x \in Col(rows, "Quantity") : m >= x)

\* Series.min() / Series.max() of InvoiceDate
date_min(rows) ==
    IF empty(rows) THEN NaN
    ELSE Num(CHOOSE m \in Col(rows, "InvoiceDate") :
                 \A x \in Col(rows, "InvoiceDate") : DateLE(m, x))

date_max(rows) ==
    IF empty(rows) THEN NaN
    ELSE Num(CHOOSE m \in Col(rows, "InvoiceDate") :
                 \A x \in Col(rows, "InvoiceDate") : DateLE(x, m))

\* date.today(), the day the dashboard runs
today == [year |-> 2026, month |-> 11, day |-> 3]

\* st.sidebar.date_input(value=(min, max)): the tuple the widget holds, which
\* is `value` until the user picks one date (a 1-tuple) or two.
date_input(value, picked) == IF picked = <<>> THEN value ELSE picked

\* st.sidebar.multiselect(options, default): the default until the user
\* changes the selection, and then a choice among the options.
multiselect(options, default, choice) ==
    IF choice.touched THEN choice.sel \cap options ELSE default

\* st.slider / st.sidebar.slider(min_value, max_value): a value of the range,
\* the one nearest to what the user asks for; Streamlit raises when the range
\* is empty or a single value.
slider(min_value, max_value, asked) ==
    IF min_value >= max_value
    THEN [raised |-> TRUE, val |-> min_value]
    ELSE [raised |-> FALSE, val |-> Max2(min_value, Min2(max_value, asked))]

-----------------------------------------------------------------------------
(* filter_data *)

\* lines 73-75: the source's InvoiceDate column is assigned a new Series
\* holding pd.to_datetime(col).dt.date (InvoiceDate is of dtype object)
ensure_date(d, h) ==
    Frame(d.obj, h + 1,
          [n \in DOMAIN d.rows |->
              [d.rows[n] EXCEPT !.InvoiceDate = dt_date(to_datetime(@))]])

\* lines 77-98: the bounds of the period
period(rows, picked) ==
    LET lo == date_min(rows)
        hi == date_max(rows)
        min_date == IF isna(lo) THEN today ELSE lo[1]
        max_date == IF isna(hi) THEN today ELSE hi[1]
        date_range == date_input(<<min_date, max_date>>, picked)
    IN IF Len(date_range) = 2
       THEN [start_date |-> date_range[1], end_date |-> date_range[2]]
       ELSE [start_date |-> date_range[1], end_date |-> date_range[1]]

\* lines 100-103
filter_period(rows, p) ==
    SelectSeq(rows, LAMBDA r : DateLE(p.start_date, r.InvoiceDate)
                               /\ DateLE(r.InvoiceDate, p.end_date))

\* line 106: the distinct countries, missing ones dropped
country_options(rows) == Col(rows, "Country") \ {None}

\* line 111: Series.isin
filter_country(rows, selected_countries) ==
    SelectSeq(rows, LAMBDA r : r.Country \in selected_countries)

\* A slip: the slider is built even when every row has the same Quantity
threshold_always_slider(rows, asked) ==
    LET lo == quantity_min(rows)
        hi == quantity_max(rows)
    IN IF isna(lo) \/ isna(hi)
       THEN [raised |-> TRUE, val |-> 0]
       ELSE slider(lo[1], hi[1], asked)

\* lines 119-133: int() of NaN raises
threshold(rows, asked) ==
    LET lo == quantity_min(rows)
        hi == quantity_max(rows)
    IN IF isna(lo) \/ isna(hi)
       THEN [raised |-> TRUE, val |-> 0]
       ELSE IF lo[1] = hi[1]
            THEN [raised |-> FALSE, val |-> lo[1]]
            ELSE slider(lo[1], hi[1], asked)

\* A slip: > for >=
filter_quantity_strict(rows, quantity_threshold) ==
    SelectSeq(rows, LAMBDA r : r.Quantity > quantity_threshold)

\* line 135
filter_quantity(rows, quantity_threshold) ==
    SelectSeq(rows, LAMBDA r : r.Quantity >= quantity_threshold)

NoLocals ==
    [stage1 |-> <<>>, stage2 |-> <<>>, selected |-> {}, reached |-> "start",
     threshold |-> NaN]

\* What a call of filter_data leaves behind: what it returns (ret), what it
\* leaves of its argument (src), the objects allocated, whether it raised,
\* the warning it showed and its locals.
Returned(ret, src, h, raised, warning, locals) ==
    [ret |-> ret, src |-> src, heap |-> h, raised |-> raised, warning |-> warning,
     locals |-> locals]

\* lines 135-137, with the threshold t of lines 119-133
quantity_stage(src, h, locals, t) ==
    IF t.raised
    THEN Returned(Take(h + 3, locals.stage2), src, h + 5, TRUE, "",
                  [locals EXCEPT !.reached = "quantite"])
    ELSE Returned(Take(h + 5, filter_quantity(locals.stage2, t.val)), src, h + 7,
                  FALSE, "",
                  [locals EXCEPT !.reached = "quantite", !.threshold = Num(t.val)])

\* lines 113-133
after_country(src, h, c, locals) ==
    IF empty(locals.stage2)
    THEN Returned(Take(h + 3, locals.stage2), src, h + 5, FALSE,
                  "Aucune ligne apres filtres periode et pays.", locals)
    ELSE quantity_stage(src, h, locals, threshold(locals.stage2, c.quantite))

\* lines 105-111, with the options of the multiselect
country_stage(src, h, c, stage1, countries) ==
    after_country(src, h, c,
        [NoLocals EXCEPT
            !.stage1 = stage1,
            !.selected = multiselect(countries, countries, c.pays),
            !.stage2 = filter_country(stage1, multiselect(countries, countries, c.pays)),
            !.reached = "pays"])

\* lines 100-106, with the period of lines 77-98
period_stage(src, h, c, stage1) ==
    country_stage(src, h, c, stage1, country_options(stage1))

\* lines 77-103, with the source after lines 73-75
after_ensure(src, h, c) ==
    period_stage(src, h, c, filter_period(src.rows, period(src.rows, c.periode)))

\* filter_data(df) under the widget settings c, with h objects allocated
filter_data(d, c, h) ==
    IF empty(d.rows)
    THEN Returned(d, d, h, FALSE, "Aucune donnee disponible.", NoLocals)
    ELSE after_ensure(ensure_date(d, h), h, c)

-----------------------------------------------------------------------------
(* pandas: groupby, aggregates, sort *)

\* Every string of the model in Python's string order: what groupby sorts
\* its keys by.
collation ==
    <<"B1", "B2", "B3", "C1", "C2", "FR", "Friday", "Monday", "Mug", "Plate",
      "Saturday", "Spoon", "Sunday", "Thursday", "Tuesday", "UK", "Wednesday">>

Rank(s) == CHOOSE n \in DOMAIN collation : collation[n] = s

\* The members of S, a set of records with distinct integer fields `ord`,
\* by ascending `ord`
RECURSIVE Ascending(_)
Ascending(S) ==
    IF S = {} THEN <<>>
    ELSE LET m == CHOOSE x \in S : \A y \in S : x.ord <= y.ord
         IN <<m>> \o Ascending(S \ {m})

\* The group keys of groupby(name): the distinct values, missing ones dropped
group_keys(rows, name) == Col(rows, name) \ {None}

\* The rows of one group
group(rows, name, k) == SelectSeq(rows, LAMBDA r : r[name] = k)

\* Series.nunique(): the distinct values, missing ones dropped
nunique(rows, name) == Cardinality(Col(rows, name) \ {None})

\* Series.sum() of an integer column
RECURSIVE sum_int(_, _)
sum_int(rows, name) ==
    IF rows = <<>> THEN 0 ELSE rows[1][name] + sum_int(Tail(rows), name)

\* Series.sum() of a float column: NaN cells are skipped, no cell gives 0
RECURSIVE sum_float(_, _)
sum_float(rows, name) ==
    IF rows = <<>> THEN 0
    ELSE (IF isna(rows[1][name]) THEN 0 ELSE rows[1][name][1])
         + sum_float(Tail(rows), name)

\* Series.mean(): sum / count, NaN (0 / 0) on an empty Series
mean(rows, name) ==
    IF rows = <<>> THEN NaN ELSE Num([sum |-> sum_int(rows, name), count |-> Len(rows)])

\* DataFrame.sort_values(name, ascending=False): rows with equal values keep
\* their order (below 16 rows numpy sorts by insertion)
RECURSIVE sort_values_desc(_, _)
sort_values_desc(rows, name) ==
    IF rows = <<>> THEN <<>>
    ELSE LET n == CHOOSE a \in DOMAIN rows :
                     /\ \A b \in DOMAIN rows : rows[a][name] >= rows[b][name]
                     /\ \A b \in 1..(a - 1) : rows[b][name] # rows[a][name]
             rest == [b \in 1..(Len(rows) - 1) |-> IF b < n THEN rows[b] ELSE rows[b + 1]]
         IN <<rows[n]>> \o sort_values_desc(rest, name)

\* DataFrame.head(n)
head(rows, n) == SubSeq(rows, 1, Min2(n, Len(rows)))

Drop(seq) == [n \in DOMAIN seq |-> [f \in DOMAIN seq[n] \ {"ord"} |-> seq[n][f]]]

\* f"{n:,}".replace(",", " "): the digits in groups of three
RECURSIVE thousands(_)
thousands(n) ==
    IF n < 1000 THEN ToString(n)
    ELSE thousands(n \div 1000) \o " "
         \o ToString((n % 1000) \div 100) \o ToString((n % 100) \div 10)
         \o ToString(n % 10)

-----------------------------------------------------------------------------
(* kpi_section *)

\* np.isnan
np_isnan(x) == isna(x)

\* line 148: nunique returns a count
n_customers_of(rows) == Num(nunique(rows, "CustomerID"))

\* lines 154-157
clients_cell(n_customers) ==
    IF ~np_isnan(n_customers) THEN thousands(n_customers[1]) ELSE "N/A"

kpi_section(rows) ==
    LET n_transactions == nunique(rows, "BillNo")
        n_items == nunique(rows, "Itemname")
        n_customers == n_customers_of(rows)
        total_revenue == sum_float(rows, "Revenue")
    IN [section |-> "kpi_section", raised |-> FALSE,
        n_transactions |-> n_transactions, n_items |-> n_items,
        n_customers |-> n_customers, total_revenue |-> total_revenue,
        Transactions |-> thousands(n_transactions),
        Articles |-> thousands(n_items),
        Clients |-> clients_cell(n_customers),
        CA |-> thousands(total_revenue) \o " EUR"]

-----------------------------------------------------------------------------
(* transactions_over_time *)

\* lines 179-200: one row per day or month (no row of the model lacks its Date)
transactions_over_time(rows, freq) ==
    LET by == IF freq = "Jour" THEN "InvoiceDate" ELSE "InvoiceMonth"
        ts == Ascending({[ord |-> DateOrd(k), bucket |-> k,
                          Transactions |-> nunique(group(rows, by, k), "BillNo")] :
                         k \in Col(rows, by)})
    IN [section |-> "transactions_over_time", raised |-> FALSE, freq |-> freq,
        ts |-> Drop(ts)]

-----------------------------------------------------------------------------
(* top_products *)

ValueCol(mode) == IF mode = "Quantite vendue" THEN "quantity_sold" ELSE "revenue"

\* A slip: sorted by quantity_sold whatever the mode
product_table_by_quantity(rows, mode) ==
    LET agg == Ascending({[ord |-> Rank(k), Itemname |-> k,
                           quantity_sold |-> sum_int(group(rows, "Itemname", k), "Quantity"),
                           revenue |-> sum_float(group(rows, "Itemname", k), "Revenue"),
                           n_transactions |-> nunique(group(rows, "Itemname", k), "BillNo")] :
                          k \in group_keys(rows, "Itemname")})
    IN sort_values_desc(Drop(agg), "quantity_sold")

\* lines 219-236: one row per product, sorted by the metric of the mode
product_table(rows, mode) ==
    LET agg == Ascending({[ord |-> Rank(k), Itemname |-> k,
                           quantity_sold |-> sum_int(group(rows, "Itemname", k), "Quantity"),
                           revenue |-> sum_float(group(rows, "Itemname", k), "Revenue"),
                           n_transactions |-> nunique(group(rows, "Itemname", k), "BillNo")] :
                          k \in group_keys(rows, "Itemname")})
    IN sort_values_desc(Drop(agg), ValueCol(mode))

\* lines 243-253 and 354-365: how many rows to show
top_n_of(n, asked) ==
    IF n = 1 THEN [raised |-> FALSE, val |-> 1] ELSE slider(1, n, asked)

NoTable(name, info) ==
    [section |-> name, raised |-> FALSE, info |-> info, shown |-> FALSE,
     table |-> <<>>, top_n |-> NaN, top |-> <<>>]

\* A slip: neither guard against a table without rows
top_products_unguarded(rows, mode, asked) ==
    LET agg == product_table(rows, mode)
        n_products == Len(agg)
        top_n == top_n_of(n_products, asked)
    IN IF top_n.raised
       THEN [NoTable("top_products", "") EXCEPT !.raised = TRUE, !.table = agg]
       ELSE [section |-> "top_products", raised |-> FALSE, info |-> "",
             shown |-> TRUE, table |-> agg, top_n |-> Num(top_n.val),
             top |-> head(agg, top_n.val), value_col |-> ValueCol(mode),
             asked |-> asked]

top_products(rows, mode, asked) ==
    IF empty(rows)
    THEN NoTable("top_products",
                 "Aucune donnee disponible pour les produits avec les filtres actuels.")
    ELSE
    LET agg == product_table(rows, mode)
        n_products == Len(agg)
        top_n == top_n_of(n_products, asked)
    IN IF n_products = 0
       THEN NoTable("top_products", "Aucun produit apres filtrage.")
       ELSE IF top_n.raised
            THEN [NoTable("top_products", "") EXCEPT !.raised = TRUE, !.table = agg]
            ELSE [section |-> "top_products", raised |-> FALSE, info |-> "",
                  shown |-> TRUE, table |-> agg, top_n |-> Num(top_n.val),
                  top |-> head(agg, top_n.val), value_col |-> ValueCol(mode),
                  asked |-> asked]

-----------------------------------------------------------------------------
(* basket_analysis *)

\* A slip: the revenue of a basket taken from its first row ("first" for "sum")
basket_table_first(rows) ==
    Drop(Ascending({[ord |-> Rank(k), BillNo |-> k,
                     basket_size |-> nunique(group(rows, "BillNo", k), "Itemname"),
                     quantity_total |-> sum_int(group(rows, "BillNo", k), "Quantity"),
                     revenue |-> sum_float(head(group(rows, "BillNo", k), 1), "Revenue")] :
                    k \in group_keys(rows, "BillNo")}))

\* lines 282-286: one row per BillNo
basket_table(rows) ==
    Drop(Ascending({[ord |-> Rank(k), BillNo |-> k,
                     basket_size |-> nunique(group(rows, "BillNo", k), "Itemname"),
                     quantity_total |-> sum_int(group(rows, "BillNo", k), "Quantity"),
                     revenue |-> sum_float(group(rows, "BillNo", k), "Revenue")] :
                    k \in group_keys(rows, "BillNo")}))

\* lines 297-303: value_counts of basket_size, sorted by basket_size
size_counts_of(baskets) ==
    Drop(Ascending({[ord |-> s, basket_size |-> s,
                     count |-> Len(group(baskets, "basket_size", s))] :
                    s \in Col(baskets, "basket_size")}))

basket_analysis(rows) ==
    IF empty(rows)
    THEN [section |-> "basket_analysis", raised |-> FALSE, shown |-> FALSE,
          info |-> "Aucune donnee disponible pour l'analyse des paniers avec les filtres actuels.",
          baskets |-> <<>>, means |-> <<>>, size_counts |-> <<>>]
    ELSE
    LET baskets == basket_table(rows)
    IN [section |-> "basket_analysis", raised |-> FALSE, shown |-> TRUE, info |-> "",
        baskets |-> baskets,
        means |-> <<mean(baskets, "basket_size"), mean(baskets, "quantity_total"),
                    mean(baskets, "revenue")>>,
        size_counts |-> size_counts_of(baskets)]

-----------------------------------------------------------------------------
(* country_analysis *)

\* lines 338-346: one row per country, sorted by revenue
country_table(rows) ==
    LET stats == Ascending({[ord |-> Rank(k), Country |-> k,
                             transactions |-> nunique(group(rows, "Country", k), "BillNo"),
                             revenue |-> sum_float(group(rows, "Country", k), "Revenue")] :
                            k \in group_keys(rows, "Country")})
    IN sort_values_desc(Drop(stats), "revenue")

country_analysis(rows, asked) ==
    IF empty(rows)
    THEN NoTable("country_analysis",
                 "Aucune donnee disponible pour la repartition geographique.")
    ELSE
    LET country_stats == country_table(rows)
        n_countries == Len(country_stats)
        top_countries == top_n_of(n_countries, asked)
    IN IF n_countries = 0
       THEN NoTable("country_analysis", "Aucun pays trouve apres filtrage.")
       ELSE IF top_countries.raised
            THEN [NoTable("country_analysis", "") EXCEPT !.raised = TRUE,
                                                         !.table = country_stats]
            ELSE [section |-> "country_analysis", raised |-> FALSE, info |-> "",
                  shown |-> TRUE, table |-> country_stats,
                  top_n |-> Num(top_countries.val),
                  top |-> head(country_stats, top_countries.val)]

-----------------------------------------------------------------------------
(* temporal_pattern *)

\* A slip: count() for nunique()
heat_cells_count(rows) ==
    LET keys == {<<rows[n].Weekday, rows[n].Hour>> : n \in DOMAIN rows}
        cell(k) == SelectSeq(rows, LAMBDA r : r.Weekday = k[1] /\ r.Hour = k[2])
    IN Drop(Ascending({[ord |-> Rank(k[1]) * 24 + k[2], Weekday |-> k[1], Hour |-> k[2],
                        transactions |-> Len(SelectSeq(cell(k), LAMBDA r : r.BillNo # None))] :
                       k \in keys}))

\* lines 392-396: one row per (Weekday, Hour) that some row of df has, in
\* the order of the keys (Weekday as a string, then Hour)
heat_cells(rows) ==
    LET keys == {<<rows[n].Weekday, rows[n].Hour>> : n \in DOMAIN rows}
        cell(k) == SelectSeq(rows, LAMBDA r : r.Weekday = k[1] /\ r.Hour = k[2])
    IN Drop(Ascending({[ord |-> Rank(k[1]) * 24 + k[2], Weekday |-> k[1], Hour |-> k[2],
                        transactions |-> nunique(cell(k), "BillNo")] : k \in keys}))

\* lines 398-409: Weekday becomes an ordered categorical
temporal_pattern(rows) ==
    [section |-> "temporal_pattern", raised |-> FALSE,
     heat |-> heat_cells(rows), categories |-> weekday_order]

-----------------------------------------------------------------------------
(* The inputs: the table's rows and the user's widget settings *)

T1 == Timestamp(2021, 1, 5, 10)     \* a Tuesday
T2 == Timestamp(2021, 2, 1, 23)     \* a Monday
T3 == Timestamp(2022, 1, 5, 10)     \* a Wednesday, January of another year

\* Rows that differ in what the Quantity and Price cells hold
LoadRows ==
    {RawRow("B1", "Mug", q, T1, p, "C1", "UK") :
        q \in {RawNull, RawText, RawNum(2)}, p \in {RawNull, RawText, RawNum(3)}}

\* Rows that differ in what the three filters read
FilterRows ==
    {RawRow("B1", "Mug", RawNum(q), t, RawNum(3), "C1", k) :
        q \in {1, 3}, t \in {T1, T2}, k \in {None, "UK"}}
    \cup {RawRow("B2", "Plate", RawNum(2), t, RawNum(5), "C1", "FR") : t \in {T1, T2}}

\* Rows that differ in the group keys, missing ones included
KeyRows ==
    {RawRow(b, i, RawNum(1), T1, RawNum(3), "C1", k) :
        b \in {None, "B1", "B2"}, i \in {None, "Mug"}, k \in {None, "UK"}}

\* Rows that differ in what the rankings sort by
RankRows ==
    {RawRow("B1", i, RawNum(qp[1]), T1, qp[2], "C1", "UK") :
        i \in {"Mug", "Plate", "Spoon"},
        qp \in {<<3, RawNum(1)>>, <<1, RawNum(5)>>, <<2, RawNull>>}}

\* Rows of several bills, products and countries, some without a price
RollupRows ==
    {RawRow(b, i, RawNum(2), T1, p, "C1", k) :
        b \in {"B1", "B2"}, i \in {"Mug", "Plate"}, k \in {"FR", "UK"},
        p \in {RawNull, RawNum(3)}}

\* Rows that differ in customer, bill and time
TimeRows ==
    {RawRow(b, "Mug", RawNum(1), t, RawNum(3), c, "UK") :
        b \in {None, "B1", "B2"}, t \in {T1, T2, T3}, c \in {None}}
    \cup {RawRow(b, "Mug", RawNum(1), T1, RawNum(3), c, "UK") :
             b \in {"B1", "B2"}, c \in {"C1", "C2"}}

Tables(rows) == UNION {[1..n -> rows] : n \in 0..MaxRows}

\* The widgets left as they are
DefaultCfg == [periode |-> <<>>, pays |-> [touched |-> FALSE, sel |-> {}], quantite |-> 0]

FilterConfigs ==
    [periode : {<<>>, <<dt_date(T1)>>, <<dt_date(T2), dt_date(T3)>>},
     pays : {[touched |-> FALSE, sel |-> {}], [touched |-> TRUE, sel |-> {}],
             [touched |-> TRUE, sel |-> {"UK"}]},
     quantite : {0, 2, 5}]

Scenarios ==
    {[rows |-> FilterRows, cfgs |-> FilterConfigs]}
    \cup {[rows |-> R, cfgs |-> {DefaultCfg}] :
             R \in {LoadRows, KeyRows, RankRows, RollupRows, TimeRows}}

Asked == 0..(MaxRows + 1)

-----------------------------------------------------------------------------
(* main *)

NoFrame == Frame(0, 0, <<>>)
NoFilter == [ret |-> NoFrame, raised |-> FALSE, warning |-> "", locals |-> NoLocals]
NoOutput == [section |-> "", raised |-> FALSE]
NoPage == [error |-> "", lines |-> NaN]

Init ==
    /\ \E s \in Scenarios : raw \in Tables(s.rows) /\ cfg \in s.cfgs
    /\ pc = "load_data"
    /\ heap = 0
    /\ df = NoFrame
    /\ flt = NoFilter
    /\ page = NoPage
    /\ metrics = NoOutput
    /\ out = NoOutput

\* lines 443-447
LoadData ==
    /\ pc = "load_data"
    /\ df' = Take(heap, load_data(raw))
    /\ heap' = heap + 2
    /\ IF empty(load_data(raw))
       THEN /\ page' = [page EXCEPT !.error = "Aucune donnee chargee depuis la base de donnees."]
            /\ pc' = "done"
       ELSE /\ page' = page
            /\ pc' = "filter_data"
    /\ UNCHANGED <<raw, cfg, flt, metrics, out>>

\* lines 449-451
FilterData ==
    /\ pc = "filter_data"
    /\ flt' = [f \in {"ret", "raised", "warning", "locals"} |->
                  filter_data(df, cfg, heap)[f]]
    /\ df' = filter_data(df, cfg, heap).src
    /\ heap' = filter_data(df, cfg, heap).heap
    /\ page' = IF flt'.raised THEN page ELSE [page EXCEPT !.lines = Num(Len(flt'.ret.rows))]
    /\ pc' = IF flt'.raised THEN "raised" ELSE "kpi_section"
    /\ UNCHANGED <<raw, cfg, metrics, out>>

Section(name, result, next) ==
    /\ pc = name
    /\ out' = result
    /\ pc' = IF result.raised THEN "raised" ELSE next
    /\ UNCHANGED <<raw, heap, df, cfg, flt, page, metrics>>

\* line 454
KpiSection ==
    /\ pc = "kpi_section"
    /\ metrics' = kpi_section(flt.ret.rows)
    /\ pc' = IF metrics'.raised THEN "raised" ELSE "transactions_over_time"
    /\ UNCHANGED <<raw, heap, df, cfg, flt, page, out>>

\* lines 461-462
TransactionsOverTime ==
    \E freq \in {"Jour", "Mois"} :
        Section("transactions_over_time", transactions_over_time(flt.ret.rows, freq),
                "top_products")

\* lines 463-464
TopProducts ==
    \E mode \in {"Quantite vendue", "Chiffre d'affaires"}, asked \in Asked :
        Section("top_products", top_products(flt.ret.rows, mode, asked), "basket_analysis")

\* lines 465-466
BasketAnalysis ==
    Section("basket_analysis", basket_analysis(flt.ret.rows), "country_analysis")

\* lines 467-468
CountryAnalysis ==
    \E asked \in Asked :
        Section("country_analysis", country_analysis(flt.ret.rows, asked),
                "temporal_pattern")

\* lines 469-470
TemporalPattern ==
    Section("temporal_pattern", temporal_pattern(flt.ret.rows), "done")

Next ==
    \/ LoadData
    \/ FilterData
    \/ KpiSection
    \/ TransactionsOverTime
    \/ TopProducts
    \/ BasketAnalysis
    \/ CountryAnalysis
    \/ TemporalPattern

Spec == Init /\ [][Next]_vars

-----------------------------------------------------------------------------
(* Properties *)

Filtered == flt.locals.reached # "start"      \* filter_data ran its stages
view == flt.ret.rows                          \* the filtered view

\* a is b with some rows left out
IsSubTable(a, b) ==
    \E f \in [DOMAIN a -> DOMAIN b] :
        /\ \A m, n \in DOMAIN a : m < n => f[m] < f[n]
        /\ \A n \in DOMAIN a : a[n] = b[f[n]]

Defined(rows, name) == {rows[n][name] : n \in DOMAIN rows} \ {None}

\* C1: filter_data returns some of the rows of the table it is given, no more
\* of them than the table has, and filtering its result again with the same
\* widget settings returns the same rows.
FilterNarrowsAndIsIdempotent ==
    Filtered =>
        /\ Len(view) <= Len(df.rows)
        /\ IsSubTable(view, df.rows)
        /\ filter_data(flt.ret, cfg, heap).ret.rows = view

\* C1 witness: settings other than the defaults removed some rows and kept others
FilterRemovedSomeRows ==
    /\ Filtered
    /\ cfg # DefaultCfg
    /\ 0 < Len(view)
    /\ Len(view) < Len(df.rows)
    /\ Len(flt.locals.stage2) > Len(view)

\* C2: after filter_data the source table is what load_data returned, object
\* for object and value for value, and the view is another object.
FilterLeavesSourceAlone ==
    Filtered =>
        /\ df = Take(0, load_data(raw))
        /\ flt.ret.obj # df.obj

\* C3: the Clients cell reads N/A when no row of the view has a CustomerID,
\* and otherwise the number of distinct CustomerID.
ClientsUnavailableWithoutCustomers ==
    metrics.section = "kpi_section" =>
        metrics.Clients = IF Defined(view, "CustomerID") = {} THEN "N/A"
                          ELSE thousands(Cardinality(Defined(view, "CustomerID")))

Metric(row) == row[out.value_col]

\* C4: of a view with rows, the product table shown has min(topN, n) rows for
\* n the number of distinct products, topN being what the user asks for
\* brought into 1..n (1 when n = 1), and no row has a smaller metric than
\* the row after it.
TopProductsRankedAndTruncated ==
    (out.section = "top_products" /\ ~empty(view)) =>
        LET n == Cardinality(Defined(view, "Itemname"))
        IN /\ ~out.raised
           /\ n = 0 => (~out.shown /\ out.top = <<>>)
           /\ n > 0 =>
                /\ out.shown
                /\ Len(out.table) = n
                /\ out.top_n = Num(Max2(1, Min2(n, out.asked)))
                /\ Len(out.top) = Min2(out.top_n[1], n)
                /\ \A a \in 1..(Len(out.top) - 1) :
                       Metric(out.top[a]) >= Metric(out.top[a + 1])
                /\ \A a \in DOMAIN out.top : out.top[a] = out.table[a]

\* C4 witness: three products, ranked by revenue in another order than by
\* quantity, and fewer rows asked for than there are products
TopProductsCutByRevenue ==
    /\ out.section = "top_products"
    /\ out.shown
    /\ out.value_col = "revenue"
    /\ Len(out.table) >= 2
    /\ Len(out.top) < Len(out.table)
    /\ out.top[1].quantity_sold < out.table[2].quantity_sold

InCell(w, h) == SelectSeq(view, LAMBDA r : r.Weekday = w /\ r.Hour = h)

Weekdays == {weekday_order[n] : n \in DOMAIN weekday_order}

\* C5 as claimed: the heatmap has one cell for each Weekday and each Hour of
\* 0..23, holding the number of distinct BillNo of that weekday and hour,
\* 0 where no transaction falls.
HeatmapIsCompleteGrid ==
    out.section = "temporal_pattern" =>
        /\ out.categories = weekday_order
        /\ \A w \in Weekdays, h \in 0..23 :
               \E n \in DOMAIN out.heat :
                   /\ out.heat[n].Weekday = w
                   /\ out.heat[n].Hour = h
                   /\ out.heat[n].transactions = Cardinality(Defined(InCell(w, h), "BillNo"))

\* C5 amended: the heatmap has one cell for each (Weekday, Hour) that some
\* transaction of the view falls in and none for any other; a cell holds the
\* number of distinct BillNo of its weekday and hour; the Weekday categories
\* are ordered Monday to Sunday.
HeatmapHoldsObservedCells ==
    out.section = "temporal_pattern" =>
        /\ out.categories = weekday_order
        /\ \A w \in Weekdays, h \in 0..23 :
               Cardinality({n \in DOMAIN out.heat :
                               out.heat[n].Weekday = w /\ out.heat[n].Hour = h})
                   = IF empty(InCell(w, h)) THEN 0 ELSE 1
        /\ \A n \in DOMAIN out.heat :
               out.heat[n].transactions
                   = Cardinality(Defined(InCell(out.heat[n].Weekday, out.heat[n].Hour),
                                         "BillNo"))

\* C5 witness: a cell that two rows of one bill fall in
HeatmapCellOfOneBill ==
    /\ out.section = "temporal_pattern"
    /\ \E n \in DOMAIN out.heat :
           /\ out.heat[n].transactions = 1
           /\ Len(InCell(out.heat[n].Weekday, out.heat[n].Hour)) = 2

\* C6: with an empty view every section runs to its end without raising and
\* renders nothing or zeros, and main() goes on to the next section.
EmptyViewRunsEverySection ==
    (Filtered /\ empty(view)) =>
        /\ ~flt.raised
        /\ pc # "raised"
        /\ pc # "done" => ENABLED Next
        /\ metrics.section = "kpi_section" =>
              /\ ~metrics.raised
              /\ metrics.n_transactions = 0
              /\ metrics.n_items = 0
              /\ metrics.total_revenue = 0
        /\ ~out.raised
        /\ out.section = "transactions_over_time" => out.ts = <<>>
        /\ out.section \in {"top_products", "country_analysis"} =>
              (~out.shown /\ out.table = <<>> /\ out.top = <<>>)
        /\ out.section = "basket_analysis" =>
              (~out.shown /\ out.baskets = <<>> /\ out.size_counts = <<>>)
        /\ out.section = "temporal_pattern" => out.heat = <<>>

\* C6 witness: main() ran all six sections on an empty view
EmptyViewReachedTheEnd ==
    /\ Filtered
    /\ empty(view)
    /\ pc = "done"
    /\ metrics.section = "kpi_section"
    /\ out.section = "temporal_pattern"

Loaded == pc # "load_data"

\* C7: in what load_data returns, a Quantity that was no number is 0, a Price
\* that was no number is NaN, Revenue is NaN exactly when Price is, and
\* otherwise Revenue is Quantity times Price.
LoadCoercesQuantityNotPrice ==
    Loaded =>
        /\ Len(df.rows) = Len(raw)
        /\ \A n \in DOMAIN raw :
               LET r == df.rows[n]
               IN /\ raw[n].Quantity.kind # "num" => r.Quantity = 0
                  /\ raw[n].Quantity.kind = "num" => r.Quantity = raw[n].Quantity.val
                  /\ raw[n].Price.kind # "num" => r.Price = NaN
                  /\ raw[n].Price.kind = "num" => r.Price = Num(raw[n].Price.val)
                  /\ (r.Revenue = NaN) <=> (r.Price = NaN)
                  /\ r.Price # NaN => r.Revenue = Num(r.Quantity * r.Price[1])

\* C7 witness: a row whose quantity is no number and whose price is one, next
\* to a row whose price is no number and whose quantity is one
LoadedBothCoercions ==
    /\ Loaded
    /\ \E n \in DOMAIN raw :
           raw[n].Quantity.kind = "text" /\ raw[n].Price.kind = "num"
           /\ df.rows[n].Revenue = Num(0)
    /\ \E n \in DOMAIN raw :
           raw[n].Quantity.kind = "num" /\ raw[n].Price.kind = "null"
           /\ df.rows[n].Revenue = NaN

\* C8: when the user leaves the country selection as it is, the country stage
\* keeps every row the period stage kept.
DefaultCountriesKeepEveryRow ==
    (Filtered /\ ~cfg.pays.touched) => flt.locals.stage2 = flt.locals.stage1

Quantities(rows) == {rows[n].Quantity : n \in DOMAIN rows}

\* C9: the quantity stage runs only on a view with rows; its threshold is no
\* less than the least and no more than the greatest Quantity of that view;
\* it leaves at least one row; so the view filter_data returns is empty
\* exactly when the view after the period and country stages is.
QuantityStageKeepsViewNonEmpty ==
    Filtered =>
        /\ ~flt.raised
        /\ pc # "raised"
        /\ (flt.locals.reached = "quantite") <=> ~empty(flt.locals.stage2)
        /\ flt.locals.reached = "quantite" =>
              /\ flt.locals.threshold # NaN
              /\ \E lo, hi \in Quantities(flt.locals.stage2) :
                     /\ \A q \in Quantities(flt.locals.stage2) : lo <= q /\ q <= hi
                     /\ lo <= flt.locals.threshold[1]
                     /\ flt.locals.threshold[1] <= hi
              /\ view = SelectSeq(flt.locals.stage2,
                                  LAMBDA r : r.Quantity >= flt.locals.threshold[1])
        /\ empty(view) <=> empty(flt.locals.stage2)

\* C9 witness: every row of the view after the country stage has the same
\* Quantity, and the user asked for a greater threshold
ThresholdOfSingleQuantity ==
    /\ Filtered
    /\ flt.locals.reached = "quantite"
    /\ Cardinality(Quantities(flt.locals.stage2)) = 1
    /\ Len(flt.locals.stage2) = 2
    /\ flt.locals.threshold[1] < cfg.quantite
    /\ view = flt.locals.stage2

AllKeysDefined ==
    \A n \in DOMAIN view :
        view[n].BillNo # None /\ view[n].Itemname # None /\ view[n].Country # None

\* C10: when every row of the view has its BillNo, Itemname and Country, the
\* revenue of the KPI, the revenues of the baskets, the revenues of all
\* products and the revenues of all countries have the same total.
RollupsAgreeOnRevenue ==
    (metrics.section = "kpi_section" /\ AllKeysDefined) =>
        /\ (out.section = "basket_analysis" /\ out.shown) =>
              sum_int(out.baskets, "revenue") = metrics.total_revenue
        /\ (out.section \in {"top_products", "country_analysis"} /\ out.shown) =>
              sum_int(out.table, "revenue") = metrics.total_revenue

\* C10 witness: two baskets, one of them with a row that has no price
RollupOfTwoBaskets ==
    /\ metrics.section = "kpi_section"
    /\ AllKeysDefined
    /\ out.section = "basket_analysis"
    /\ Len(out.baskets) = 2
    /\ metrics.total_revenue > 0
    /\ \E n \in DOMAIN view : view[n].Revenue = NaN

====
